---- MODULE Spec2Model ----
(***************************************************************************)
(* A model of the Bloom filter of src/src/lib.rs: the BloomFilter struct   *)
(* (buckets, hash_algorithms, item_count), its constructor and its         *)
(* operations insert, check, clear, error_chance, capacity, len, is_empty, *)
(* with the hash scheme hash_with_algorithm / bloom_hash.                  *)
(*                                                                         *)
(* A u64 is written as its 8 bytes, most significant first, so that the    *)
(* 64-bit shifts, the wrap-around and the reduction modulo the bit-store   *)
(* length are computed on the full width.                                  *)
(***************************************************************************)
EXTENDS Integers, Sequences, FiniteSets, TLC

(* ------------------------------ bounds -------------------------------- *)
MaxSize == 3
MaxHashCount == 4
MaxInserts == 3
MaxReaders == 2

(* ------------------------- program constants -------------------------- *)
U64Bytes == 8
Md5Len == 16
Sha256Len == 32
Byte == 256

\* The values handed to insert and check (those of the crate's tests).
Values == {"coffee", "pancakes", "ham"}

VARIABLES
    hasher,           \* DefaultHasher: the 64-bit hash of each value
    fold,             \* a fold over a digest: the digest, the bytes taken, acc
    borrow,           \* the borrows of the filter held: the number of shared
                      \* ones, and the call holding the exclusive one
    status,           \* result of new: "none" before the call, "Ok" or an error
    size,             \* the size argument given to new
    hash_count,       \* the hash_count argument given to new
    buckets,          \* BloomFilter.buckets, bucket i at position i + 1
    hash_algorithms,  \* BloomFilter.hash_algorithms
    item_count,       \* BloomFilter.item_count
    inserted,         \* values given to insert since new or the last clear
    inserts,          \* number of insert calls since new or the last clear
    fresh,            \* no insert and no clear has been called since new
    twin,             \* buckets of a second filter, built with at most three
                      \* hash positions and given the same calls
    ret               \* the last call and what it returned

vars == <<hasher, fold, borrow, status, size, hash_count, buckets, hash_algorithms,
          item_count, inserted, inserts, fresh, twin, ret>>

env == <<hasher, fold, borrow>>
args == <<size, hash_count>>
filter == <<buckets, hash_algorithms, item_count>>
ghost == <<inserted, inserts, fresh, twin>>

(* ----------------------------- hash scheme ---------------------------- *)
Palette == <<"Default", "MD5", "SHA256">>

Zero64 == [i \in 1..U64Bytes |-> 0]

\* 64-bit hashes DefaultHasher may return: 5, a value with every byte set
\* differently, and 2^64 - 1.
HashSamples ==
    { [i \in 1..U64Bytes |-> IF i = U64Bytes THEN 5 ELSE 0],
      [i \in 1..U64Bytes |-> 31 * i],
      [i \in 1..U64Bytes |-> Byte - 1] }

Reverse(s) == [i \in 1..Len(s) |-> s[Len(s) + 1 - i]]

\* u64::to_le_bytes: least significant byte first.
to_le_bytes(h) == Reverse(h)

RECURSIVE WeightedSum(_, _)
WeightedSum(bytes, i) ==
    IF i > Len(bytes) THEN 0
    ELSE (i * bytes[i] + WeightedSum(bytes, i + 1)) % Byte

\* Md5::new / update / finalize: a fixed function from the input bytes to a
\* 16-byte digest, standing for the md5 crate's.
Md5Digest(bytes) ==
    [i \in 1..Md5Len |-> (WeightedSum(bytes, 1) + 17 * i + 3) % Byte]

\* Sha256::new / update / finalize: likewise, a 32-byte digest.
Sha256Digest(bytes) ==
    [i \in 1..Sha256Len |-> (3 * WeightedSum(bytes, 1) + 29 * i + 7) % Byte]

\* Variant of FoldStep: the byte enters at the most significant end,
\* (acc >> 8) | (x << 56).
FoldStepLittleEndian(acc, x) == <<x>> \o SubSeq(acc, 1, Len(acc) - 1)

\* One step of the fold: (acc << 8) | x on a u64. The shift drops the most
\* significant byte and frees the least significant one, which x fills.
FoldStep(acc, x) == Tail(acc) \o <<x>>

RECURSIVE FoldFrom(_, _, _)
FoldFrom(acc, digest, i) ==
    IF i > Len(digest) THEN acc
    ELSE FoldFrom(FoldStep(acc, digest[i]), digest, i + 1)

\* result.iter().fold(0u64, |acc, &x| (acc << 8) | x as u64)
DigestFold(digest) == FoldFrom(Zero64, digest, 1)

\* No fold under way.
NoFold == [digest |-> <<>>, pos |-> 0, acc |-> Zero64]

\* No call holds the exclusive borrow.
NoWriter == [op |-> "none", word |-> "", pos |-> 0]

NoBorrow == [readers |-> 0, writer |-> NoWriter]

\* The MD5 arm, as a function of the intermediate DefaultHasher value.
Md5Hash == [h \in HashSamples |-> DigestFold(Md5Digest(to_le_bytes(h)))]

\* The SHA256 arm, as a function of the intermediate DefaultHasher value.
Sha256Hash == [h \in HashSamples |-> DigestFold(Sha256Digest(to_le_bytes(h)))]

hash_with_algorithm(obj, algorithm) ==
    CASE algorithm = "Default" -> hasher[obj]
      [] algorithm = "MD5" -> Md5Hash[hasher[obj]]
      [] algorithm = "SHA256" -> Sha256Hash[hasher[obj]]

\* h % m for a u64 h given by its bytes and 0 < m.
RECURSIVE ModFrom(_, _, _, _)
ModFrom(h, m, i, r) ==
    IF i > Len(h) THEN r
    ELSE ModFrom(h, m, i + 1, (r * Byte + h[i]) % m)

U64Mod(h, m) == ModFrom(h, m, 1, 0)

\* Variant of bloom_hash: the hash is truncated to its low byte, not reduced
\* modulo the bit-store length.
bloom_hash_unreduced(word, algorithm) ==
    hash_with_algorithm(word, algorithm)[U64Bytes]

\* the_hash % self.buckets.len()
bloom_hash(word, algorithm) ==
    U64Mod(hash_with_algorithm(word, algorithm), Len(buckets))

(* ------------------------------ new ----------------------------------- *)
\* Variant of CycleTake: the cycle starts at the second strategy.
CycleTakeShifted(palette, n) ==
    [j \in 1..n |-> palette[(j % Len(palette)) + 1]]

\* Variant of CycleTake: past its end the palette is walked backwards.
CycleTakeBounce(palette, n) ==
    [j \in 1..n |->
        IF ((j - 1) \div Len(palette)) % 2 = 0
        THEN palette[((j - 1) % Len(palette)) + 1]
        ELSE palette[Len(palette) - ((j - 1) % Len(palette))]]

\* vec![Default, MD5, SHA256].into_iter().cycle().take(hash_count).collect()
CycleTake(palette, n) ==
    [j \in 1..n |-> palette[((j - 1) % Len(palette)) + 1]]

\* Variant of ZeroBuckets: the bit store allocated with every bit set.
OneBuckets(n) == [i \in 1..n |-> TRUE]

\* bitvec![0; size]
ZeroBuckets(n) == [i \in 1..n |-> FALSE]

NoFilter == [buckets |-> <<>>, hash_algorithms |-> <<>>, item_count |-> 0]

\* Variant of NewResult: the hash_count check is missing.
NewResultNoHashCheck(s, k) ==
    IF s = 0 THEN [status |-> "InvalidSize", filter |-> NoFilter]
    ELSE [status |-> "Ok",
          filter |-> [buckets |-> ZeroBuckets(s),
                      hash_algorithms |-> CycleTake(Palette, k),
                      item_count |-> 0]]

\* BloomFilter::new: the Result it returns, with the fields of the filter
\* when it is Ok (no filter exists otherwise).
NewResult(s, k) ==
    IF s = 0 THEN [status |-> "InvalidSize", filter |-> NoFilter]
    ELSE IF k = 0 THEN [status |-> "InvalidHashCount", filter |-> NoFilter]
    ELSE [status |-> "Ok",
          filter |-> [buckets |-> ZeroBuckets(s),
                      hash_algorithms |-> CycleTake(Palette, k),
                      item_count |-> 0]]

\* The hash count of the second filter: that of the first, cut to the
\* length of the palette.
TwinCount(k) == IF k > Len(Palette) THEN Len(Palette) ELSE k

New(s, k) ==
    /\ status = "none"
    /\ LET r == NewResult(s, k) IN
        /\ status' = r.status
        /\ buckets' = r.filter.buckets
        /\ hash_algorithms' = r.filter.hash_algorithms
        /\ item_count' = r.filter.item_count
    /\ size' = s
    /\ hash_count' = k
    /\ inserted' = {}
    /\ inserts' = 0
    /\ fresh' = TRUE
    /\ twin' = NewResult(s, TwinCount(k)).filter.buckets
    /\ ret' = [op |-> "new"]
    /\ UNCHANGED env

(* ----------------------------- insert --------------------------------- *)
\* Variant of SetBit: the bit is flipped instead of set.
SetBitToggle(b, i) ==
    IF i < Len(b) THEN [ok |-> TRUE, b |-> [b EXCEPT ![i + 1] = ~b[i + 1]]]
    ELSE [ok |-> FALSE, b |-> b]

\* self.buckets.set(i, true): panics when i is not below the length.
SetBit(b, i) ==
    IF i < Len(b) THEN [ok |-> TRUE, b |-> [b EXCEPT ![i + 1] = TRUE]]
    ELSE [ok |-> FALSE, b |-> b]

\* The loop of insert from position j of hash_algorithms on.
RECURSIVE InsertFrom(_, _, _)
InsertFrom(b, word, j) ==
    IF j > Len(hash_algorithms) THEN [ok |-> TRUE, b |-> b]
    ELSE LET r == SetBit(b, bloom_hash(word, hash_algorithms[j])) IN
         IF r.ok THEN InsertFrom(r.b, word, j + 1) ELSE r

\* Variant of InsertBuckets: the loop misses the first hash algorithm.
InsertBucketsSkipFirst(word) == InsertFrom(buckets, word, 2)

InsertBuckets(word) == InsertFrom(buckets, word, 1)

\* The loop of insert on a filter of bit store b and strategy sequence algs
\* (the bit stores of the two filters have one length).
RECURSIVE InsertInto(_, _, _, _)
InsertInto(b, algs, word, j) ==
    IF j > Len(algs) THEN [ok |-> TRUE, b |-> b]
    ELSE LET r == SetBit(b, bloom_hash(word, algs[j])) IN
         IF r.ok THEN InsertInto(r.b, algs, word, j + 1) ELSE r

\* The strategy sequence of the second filter.
twin_algorithms == CycleTake(Palette, TwinCount(hash_count))

\* Variant of Increment: the counter is left as it is.
NoIncrement(n) == n

\* self.item_count += 1 (a u64; the guard of Insert keeps it far below 2^64)
Increment(n) == n + 1

Insert(word) ==
    /\ status = "Ok"
    /\ item_count < MaxInserts
    /\ LET r == InsertBuckets(word) IN
        IF r.ok
        THEN /\ buckets' = r.b
             /\ item_count' = Increment(item_count)
             /\ inserted' = inserted \cup {word}
             /\ inserts' = inserts + 1
             /\ fresh' = FALSE
             /\ twin' = InsertInto(twin, twin_algorithms, word, 1).b
             /\ ret' = [op |-> "insert", arg |-> word]
             /\ UNCHANGED status
        ELSE /\ status' = "Panicked"
             /\ ret' = [op |-> "insert", arg |-> word]
             /\ UNCHANGED <<filter, ghost>>
    /\ UNCHANGED <<env, args, hash_algorithms>>

(* ------------------------------ check --------------------------------- *)
\* The loop of check from position j on: the value returned, the number of
\* probes examined, and whether every access was in range.
RECURSIVE CheckFrom(_, _)
CheckFrom(word, j) ==
    IF j > Len(hash_algorithms) THEN [ok |-> TRUE, val |-> TRUE, probes |-> j - 1]
    ELSE LET i == bloom_hash(word, hash_algorithms[j]) IN
         IF i >= Len(buckets) THEN [ok |-> FALSE, val |-> FALSE, probes |-> j]
         ELSE IF ~buckets[i + 1] THEN [ok |-> TRUE, val |-> FALSE, probes |-> j]
         ELSE CheckFrom(word, j + 1)

\* Variant of CheckResult: the loop misses the first hash algorithm.
CheckResultSkipFirst(word) == CheckFrom(word, 2)

CheckResult(word) == CheckFrom(word, 1)

\* The loop of check on a filter of bit store b and strategy sequence algs.
RECURSIVE CheckIn(_, _, _, _)
CheckIn(b, algs, word, j) ==
    IF j > Len(algs) THEN [ok |-> TRUE, val |-> TRUE, probes |-> j - 1]
    ELSE LET i == bloom_hash(word, algs[j]) IN
         IF i >= Len(b) THEN [ok |-> FALSE, val |-> FALSE, probes |-> j]
         ELSE IF ~b[i + 1] THEN [ok |-> TRUE, val |-> FALSE, probes |-> j]
         ELSE CheckIn(b, algs, word, j + 1)

\* check on the second filter.
TwinCheckResult(word) == CheckIn(twin, twin_algorithms, word, 1)

\* Variant of Check: the call is counted in item_count.
CheckCounting(word) ==
    /\ status = "Ok"
    /\ LET r == CheckResult(word) IN
        /\ status' = IF r.ok THEN status ELSE "Panicked"
        /\ ret' = [op |-> "check", arg |-> word, val |-> r.val, probes |-> r.probes]
    /\ item_count' = item_count + 1
    /\ UNCHANGED <<env, args, buckets, hash_algorithms, ghost>>

Check(word) ==
    /\ status = "Ok"
    /\ LET r == CheckResult(word) IN
        /\ status' = IF r.ok THEN status ELSE "Panicked"
        /\ ret' = [op |-> "check", arg |-> word, val |-> r.val, probes |-> r.probes]
    /\ UNCHANGED <<env, args, filter, ghost>>

(* ------------------------------ clear --------------------------------- *)
\* Variant of Fill: the bit store is left as it is.
FillKeep(b, x) == b

\* Variant of Fill: the bit store is emptied (BitVec::clear) instead of reset.
FillTruncate(b, x) == <<>>

\* Variant of Fill: every bit is flipped.
FillFlip(b, x) == [i \in 1..Len(b) |-> ~b[i]]

\* self.buckets.fill(false)
Fill(b, x) == [i \in 1..Len(b) |-> x]

Clear ==
    /\ status = "Ok"
    /\ buckets' = Fill(buckets, FALSE)
    /\ item_count' = 0
    /\ inserted' = {}
    /\ inserts' = 0
    /\ fresh' = FALSE
    /\ twin' = Fill(twin, FALSE)
    /\ ret' = [op |-> "clear", dropped |-> inserted, again |-> ret.op = "clear"]
    /\ UNCHANGED <<env, args, status, hash_algorithms>>

(* --------------------------- stat queries ----------------------------- *)
\* The byte of weight 256^e of n.
RECURSIVE ByteAt(_, _)
ByteAt(n, e) ==
    IF e = 0 THEN n % Byte ELSE ByteAt(n \div Byte, e - 1)

\* n as a u64: its 8 bytes, most significant first.
ToU64(n) == [i \in 1..U64Bytes |-> ByteAt(n, U64Bytes - i)]

\* a <= b for two u64.
RECURSIVE LeqFrom(_, _, _)
LeqFrom(a, b, i) ==
    IF i > Len(a) THEN TRUE
    ELSE IF a[i] # b[i] THEN a[i] < b[i]
    ELSE LeqFrom(a, b, i + 1)

U64Leq(a, b) == LeqFrom(a, b, 1)

\* The carry the bytes of a after position i hand to position i when a is
\* multiplied by k.
RECURSIVE CarryInto(_, _, _)
CarryInto(a, k, i) ==
    IF i >= Len(a) THEN 0
    ELSE (a[i + 1] * k + CarryInto(a, k, i + 1)) \div Byte

\* The u64 product k * a: the low 64 bits, and whether a carry left them.
U64Mul(k, a) ==
    [val |-> [i \in 1..Len(a) |-> (a[i] * k + CarryInto(a, k, i)) % Byte],
     overflow |-> CarryInto(a, k, 0) # 0]

\* Variant of Numerator: the product wraps in a 2-bit integer.
NumeratorNarrow(k, n) ==
    [val |-> ToU64((k * n) % (2 * 2)), overflow |-> FALSE]

\* The u64 products of the hash counts and item counts the filter can hold.
Products ==
    [k \in 0..MaxHashCount, n \in 0..MaxInserts |-> U64Mul(k, ToU64(n))]

\* (self.hash_algorithms.len() as u64 * self.item_count): the u64 product.
\* An overflow wraps in a release build and panics in a debug build.
Numerator(k, n) == Products[k, n]

\* error_chance: (1 - exp(-numerator / denominator)) ^ power in f32. The
\* value is kept as the three numbers the float expression is built from;
\* exp and powf are not evaluated.
error_chance ==
    [numerator |-> Numerator(Len(hash_algorithms), item_count).val,
     denominator |-> Len(buckets),
     power |-> Len(hash_algorithms)]

capacity == Len(buckets)

len == item_count

is_empty == item_count = 0

ErrorChance ==
    /\ status = "Ok"
    /\ \/ /\ ret' = [op |-> "error_chance", val |-> error_chance]
          /\ UNCHANGED status
       \/ /\ Numerator(Len(hash_algorithms), item_count).overflow
          /\ ret' = [op |-> "error_chance"]
          /\ status' = "Panicked"
    /\ UNCHANGED <<env, args, filter, ghost>>

Capacity ==
    /\ status = "Ok"
    /\ ret' = [op |-> "capacity", val |-> capacity]
    /\ UNCHANGED <<env, args, status, filter, ghost>>

LenQuery ==
    /\ status = "Ok"
    /\ ret' = [op |-> "len", val |-> len]
    /\ UNCHANGED <<env, args, status, filter, ghost>>

IsEmpty ==
    /\ status = "Ok"
    /\ ret' = [op |-> "is_empty", val |-> is_empty]
    /\ UNCHANGED <<env, args, status, filter, ghost>>

(* --------------------------- specification ---------------------------- *)
Init ==
    /\ hasher \in [Values -> HashSamples]
    /\ fold = NoFold
    /\ borrow = NoBorrow
    /\ status = "none"
    /\ size = 0
    /\ hash_count = 0
    /\ buckets = NoFilter.buckets
    /\ hash_algorithms = NoFilter.hash_algorithms
    /\ item_count = NoFilter.item_count
    /\ inserted = {}
    /\ inserts = 0
    /\ fresh = TRUE
    /\ twin = NoFilter.buckets
    /\ ret = [op |-> "none"]

Next ==
    \/ \E s \in 0..MaxSize, k \in 0..MaxHashCount : New(s, k)
    \/ \E word \in Values : Insert(word)
    \/ \E word \in Values : Check(word)
    \/ Clear
    \/ ErrorChance
    \/ Capacity
    \/ LenQuery
    \/ IsEmpty

Spec == Init /\ [][Next]_vars

(* ------------------- the fold over a digest, byte by byte ------------- *)
\* Digests of n bytes: the bytes before the last 8 all 0, all 255 or varied,
\* the last 8 varied.
PatternDigests(n) ==
    { [i \in 1..n |->
          IF i <= n - U64Bytes /\ head < Byte THEN head ELSE (a * i + b) % Byte] :
      head \in {0, Byte - 1, Byte}, a \in {0, 1, 37}, b \in {0, Byte - 1} }

\* The digests folded: those of the two arms for the sampled hashes, and
\* patterns of both lengths.
DigestSamples ==
    { Md5Digest(to_le_bytes(h)) : h \in HashSamples }
        \cup { Sha256Digest(to_le_bytes(h)) : h \in HashSamples }
        \cup PatternDigests(Md5Len) \cup PatternDigests(Sha256Len)

FoldInit ==
    /\ hasher = [v \in Values |-> Zero64]
    /\ fold \in { [digest |-> d, pos |-> 0, acc |-> Zero64] : d \in DigestSamples }
    /\ borrow = NoBorrow
    /\ status = "none"
    /\ size = 0
    /\ hash_count = 0
    /\ buckets = NoFilter.buckets
    /\ hash_algorithms = NoFilter.hash_algorithms
    /\ item_count = NoFilter.item_count
    /\ inserted = {}
    /\ inserts = 0
    /\ fresh = TRUE
    /\ twin = NoFilter.buckets
    /\ ret = [op |-> "none"]

\* The closure of the fold applied to the next byte of the digest.
FoldByte ==
    /\ fold.pos < Len(fold.digest)
    /\ fold' = [fold EXCEPT !.pos = @ + 1,
                            !.acc = FoldStep(@, fold.digest[fold.pos + 1])]
    /\ UNCHANGED <<hasher, borrow, status, args, filter, ghost, ret>>

FoldNext == FoldByte

SpecFold == FoldInit /\ [][FoldNext]_vars

(* ------------- the calls as steps of several holders of the filter ---- *)
\* Variant of CanBorrowShared: a shared borrow is given whatever is held.
CanBorrowAlways(b) == TRUE

\* &self (check, error_chance, capacity, len, is_empty): a shared borrow is
\* given while no exclusive one is held.
CanBorrowShared(b) == b.writer.op = "none"

\* &mut self (insert, clear): the exclusive borrow is given while no borrow
\* at all is held.
CanBorrowMut(b) == b.readers = 0 /\ b.writer.op = "none"

ConcInit ==
    /\ Init
    /\ \A v, w \in Values : v # w => hasher[v] # hasher[w]

\* insert is entered.
BeginInsert(word) ==
    /\ status = "Ok"
    /\ item_count < MaxInserts
    /\ CanBorrowMut(borrow)
    /\ borrow' = [borrow EXCEPT !.writer = [op |-> "insert", word |-> word, pos |-> 1]]
    /\ UNCHANGED <<hasher, fold, status, args, filter, ghost, ret>>

\* One turn of the loop of insert: one bucket is set.
InsertProbe ==
    /\ status = "Ok"
    /\ borrow.writer.op = "insert"
    /\ borrow.writer.pos <= Len(hash_algorithms)
    /\ LET r == SetBit(buckets,
                       bloom_hash(borrow.writer.word,
                                  hash_algorithms[borrow.writer.pos])) IN
        /\ buckets' = r.b
        /\ status' = IF r.ok THEN status ELSE "Panicked"
    /\ borrow' = [borrow EXCEPT !.writer.pos = @ + 1]
    /\ UNCHANGED <<hasher, fold, args, hash_algorithms, item_count, ghost, ret>>

\* The counter is incremented and insert returns.
EndInsert ==
    /\ status = "Ok"
    /\ borrow.writer.op = "insert"
    /\ borrow.writer.pos > Len(hash_algorithms)
    /\ item_count' = Increment(item_count)
    /\ inserted' = inserted \cup {borrow.writer.word}
    /\ inserts' = inserts + 1
    /\ fresh' = FALSE
    /\ twin' = InsertInto(twin, twin_algorithms, borrow.writer.word, 1).b
    /\ ret' = [op |-> "insert", arg |-> borrow.writer.word]
    /\ borrow' = [borrow EXCEPT !.writer = NoWriter]
    /\ UNCHANGED <<hasher, fold, status, args, buckets, hash_algorithms>>

\* clear is entered.
BeginClear ==
    /\ status = "Ok"
    /\ CanBorrowMut(borrow)
    /\ borrow' = [borrow EXCEPT !.writer = [op |-> "clear", word |-> "", pos |-> 1]]
    /\ UNCHANGED <<hasher, fold, status, args, filter, ghost, ret>>

\* The first statement of clear: the bit store is filled with false.
ClearFill ==
    /\ status = "Ok"
    /\ borrow.writer.op = "clear"
    /\ borrow.writer.pos = 1
    /\ buckets' = Fill(buckets, FALSE)
    /\ borrow' = [borrow EXCEPT !.writer.pos = @ + 1]
    /\ UNCHANGED <<hasher, fold, status, args, hash_algorithms, item_count, ghost, ret>>

\* The second statement of clear: the counter is zeroed and clear returns.
EndClear ==
    /\ status = "Ok"
    /\ borrow.writer.op = "clear"
    /\ borrow.writer.pos > 1
    /\ item_count' = 0
    /\ inserted' = {}
    /\ inserts' = 0
    /\ fresh' = FALSE
    /\ twin' = Fill(twin, FALSE)
    /\ ret' = [op |-> "clear", dropped |-> inserted, again |-> ret.op = "clear"]
    /\ borrow' = [borrow EXCEPT !.writer = NoWriter]
    /\ UNCHANGED <<hasher, fold, status, args, buckets, hash_algorithms>>

\* A holder takes a shared borrow of the filter.
BeginRead ==
    /\ status = "Ok"
    /\ borrow.readers < MaxReaders
    /\ CanBorrowShared(borrow)
    /\ borrow' = [borrow EXCEPT !.readers = @ + 1]
    /\ UNCHANGED <<hasher, fold, status, args, filter, ghost, ret>>

\* A holder gives its shared borrow back.
EndRead ==
    /\ status = "Ok"
    /\ borrow.readers > 0
    /\ borrow' = [borrow EXCEPT !.readers = @ - 1]
    /\ UNCHANGED <<hasher, fold, status, args, filter, ghost, ret>>

\* The queries, called through a shared borrow.
ReadCheck(word) == borrow.readers > 0 /\ Check(word)

ReadErrorChance == borrow.readers > 0 /\ ErrorChance

ReadCapacity == borrow.readers > 0 /\ Capacity

ReadLen == borrow.readers > 0 /\ LenQuery

ReadIsEmpty == borrow.readers > 0 /\ IsEmpty

ConcNext ==
    \/ \E s \in 0..MaxSize, k \in 0..MaxHashCount : New(s, k)
    \/ \E word \in Values : BeginInsert(word)
    \/ InsertProbe
    \/ EndInsert
    \/ BeginClear
    \/ ClearFill
    \/ EndClear
    \/ BeginRead
    \/ EndRead
    \/ \E word \in Values : ReadCheck(word)
    \/ ReadErrorChance
    \/ ReadCapacity
    \/ ReadLen
    \/ ReadIsEmpty

SpecConc == ConcInit /\ [][ConcNext]_vars

(* ------------------------- derived notions ---------------------------- *)
Positions == 1..Len(hash_algorithms)

BucketIndices == 0..(Len(buckets) - 1)

\* The bucket indices insert writes and check reads for a value.
Probes(word) == { bloom_hash(word, hash_algorithms[j]) : j \in Positions }

Occupied == { i \in BucketIndices : buckets[i + 1] }

AllUnoccupied == \A i \in BucketIndices : ~buckets[i + 1]

InsertedProbes == UNION { Probes(v) : v \in inserted }

Errors == {"InvalidSize", "InvalidHashCount"}

Queries == {"check", "error_chance", "capacity", "len", "is_empty"}

(* ------------------------------ claims -------------------------------- *)

\* C1  No false negatives: every value inserted since new or the last clear
\* is reported by check, both as check computes it in the current state and
\* as the last check call returned it, whatever else was inserted.
NoFalseNegatives ==
    status = "Ok" =>
        /\ \A v \in inserted : CheckResult(v).val = TRUE
        /\ (ret.op = "check" /\ ret.arg \in inserted) => ret.val = TRUE

\* C1 witness: check returned true for an inserted value after three inserts
\* of two or more values.
NoFalseNegativesWitness ==
    /\ status = "Ok"
    /\ ret.op = "check"
    /\ ret.arg \in inserted
    /\ ret.val = TRUE
    /\ Cardinality(inserted) >= 2
    /\ inserts = MaxInserts

\* C2  Unknown by default: on a filter just returned by new, before any
\* insert or clear, every bucket is unoccupied and check returns false for
\* every value.
UnknownByDefault ==
    (status = "Ok" /\ fresh) =>
        /\ AllUnoccupied
        /\ \A v \in Values : CheckResult(v).val = FALSE
        /\ ret.op = "check" => ret.val = FALSE

\* C2 witness: check was called on a fresh filter and returned false.
UnknownByDefaultWitness ==
    /\ status = "Ok"
    /\ fresh
    /\ ret.op = "check"
    /\ ret.val = FALSE
    /\ Len(buckets) >= 2

\* C3  Counter accuracy: len() is the number of insert calls since new or
\* the last clear, repeated values counted each time, is_empty() is true
\* exactly when that number is 0, and no query changes item_count.
CounterAccuracy ==
    /\ [](status = "Ok" =>
            /\ len = inserts
            /\ is_empty = (inserts = 0)
            /\ ret.op = "len" => ret.val = inserts
            /\ ret.op = "is_empty" => ret.val = (inserts = 0))
    /\ [][ret'.op \in Queries => item_count' = item_count]_vars

\* C3 witness: len was read after the same value was inserted twice.
CounterAccuracyWitness ==
    /\ status = "Ok"
    /\ ret.op = "len"
    /\ ret.val = 2
    /\ Cardinality(inserted) = 1

\* C4  Clear resets fully: right after clear every bucket is unoccupied,
\* item_count is 0, len() is 0, is_empty() is true, check is false for every
\* value (those inserted before the clear included), and the filter equals
\* the one new returns for the same size and hash count.
ClearResetsFully ==
    (status = "Ok" /\ ret.op = "clear") =>
        /\ AllUnoccupied
        /\ item_count = 0
        /\ len = 0
        /\ is_empty = TRUE
        /\ \A v \in Values : CheckResult(v).val = FALSE
        /\ [buckets |-> buckets, hash_algorithms |-> hash_algorithms,
            item_count |-> item_count] = NewResult(size, hash_count).filter

\* C4 witness: clear was called after inserts of two or more values.
ClearResetsFullyWitness ==
    /\ status = "Ok"
    /\ ret.op = "clear"
    /\ Cardinality(ret.dropped) >= 2

\* C5  Construction validation: new(0, k) is InvalidSize, new(m, 0) with
\* m >= 1 is InvalidHashCount, new(m, k) with m, k >= 1 is Ok with m
\* unoccupied buckets, k hash positions and item_count 0; Overflow is never
\* returned and a failed construction leaves no filter.
ConstructionValidation ==
    status # "none" =>
        /\ size = 0 => status = "InvalidSize"
        /\ (size >= 1 /\ hash_count = 0) => status = "InvalidHashCount"
        /\ (size >= 1 /\ hash_count >= 1) => status = "Ok"
        /\ status # "Overflow"
        /\ status \in Errors =>
              /\ buckets = NoFilter.buckets
              /\ hash_algorithms = NoFilter.hash_algorithms
              /\ ret.op = "new"
        /\ (status = "Ok" /\ ret.op = "new") =>
              /\ Len(buckets) = size
              /\ AllUnoccupied
              /\ Len(hash_algorithms) = hash_count
              /\ item_count = 0

\* C5 witness: new(m, 0) with m >= 1 was refused.
ConstructionValidationWitness ==
    /\ status = "InvalidHashCount"
    /\ size >= 1
    /\ hash_count = 0

\* C6  Capacity stability: in every state of a constructed filter capacity()
\* is the size given to new, as the last capacity call returned it, and the
\* hash-strategy sequence keeps the length given to new.
CapacityStability ==
    status = "Ok" =>
        /\ capacity = size
        /\ Len(hash_algorithms) = hash_count
        /\ ret.op = "capacity" => ret.val = size

\* C6 witness: capacity was read after an insert that followed a clear.
CapacityStabilityWitness ==
    /\ status = "Ok"
    /\ ret.op = "capacity"
    /\ ~fresh
    /\ inserts = 1
    /\ size = MaxSize

\* C7  Operations are total: no call on a constructed filter panics, the
\* bit-store length is never 0, and every bucket index insert writes and
\* check reads is below capacity().
TotalOnValidFilter ==
    /\ status # "Panicked"
    /\ status = "Ok" =>
          /\ Len(buckets) >= 1
          /\ \A v \in Values : \A j \in Positions :
                bloom_hash(v, hash_algorithms[j]) \in 0..(capacity - 1)

\* C7 witness: a value whose DefaultHasher hash is 2^64 - 1 was inserted
\* into a filter of three or more buckets and three or more hash positions.
TotalOnValidFilterWitness ==
    /\ status = "Ok"
    /\ ret.op = "insert"
    /\ hasher[ret.arg] = [i \in 1..U64Bytes |-> Byte - 1]
    /\ Len(buckets) >= 3
    /\ Len(hash_algorithms) >= 3

FirstUnoccupied(word) ==
    LET bad == { j \in Positions : ~buckets[bloom_hash(word, hash_algorithms[j]) + 1] }
    IN IF bad = {} THEN Len(hash_algorithms)
       ELSE CHOOSE j \in bad : \A i \in bad : j <= i

AllProbesOccupied(word) ==
    \A j \in Positions : buckets[bloom_hash(word, hash_algorithms[j]) + 1]

\* C9  check is the conjunction of its probes: check(v) is true exactly when
\* every probe bucket of v is occupied, and it stops at the first unoccupied
\* probe bucket in position order.
CheckIsConjunction ==
    status = "Ok" =>
        /\ \A v \in Values :
              /\ CheckResult(v).val = AllProbesOccupied(v)
              /\ CheckResult(v).probes = FirstUnoccupied(v)
        /\ ret.op = "check" =>
              /\ ret.val = AllProbesOccupied(ret.arg)
              /\ ret.probes = FirstUnoccupied(ret.arg)

\* C9 witness: check returned false after its first probe bucket was found
\* occupied and before it reached the last position.
CheckIsConjunctionWitness ==
    /\ status = "Ok"
    /\ ret.op = "check"
    /\ ret.val = FALSE
    /\ ret.probes >= 2
    /\ ret.probes < Len(hash_algorithms)

\* C10  Occupied buckets are exactly the probes of what was inserted: the
\* occupied buckets are the union of the probe indices of the values
\* inserted since new or the last clear, check(w) is true exactly when the
\* probes of w lie in that union, and an insert clears no bit and sets none
\* outside the probes of the inserted value.
OccupiedAreInsertedProbes ==
    /\ [](status = "Ok" =>
            /\ Occupied = InsertedProbes
            /\ \A w \in Values :
                  CheckResult(w).val = (Probes(w) \subseteq InsertedProbes))
    /\ [][(status' = "Ok" /\ ret'.op = "insert") =>
            /\ Occupied \subseteq Occupied'
            /\ (Occupied' \ Occupied) \subseteq Probes(ret'.arg)]_vars

\* C10 witness: a false positive, check returned true for a value never
\* inserted whose probes differ from those of each inserted value.
OccupiedAreInsertedProbesWitness ==
    /\ status = "Ok"
    /\ ret.op = "check"
    /\ ret.arg \notin inserted
    /\ ret.val = TRUE
    /\ \A v \in inserted : Probes(v) # Probes(ret.arg)

\* C11  Hash-strategy sequence: a constructed filter holds exactly
\* hash_count strategies, position j (from 0) being Default, MD5 or SHA256
\* as j mod 3 is 0, 1 or 2, in every state that follows the construction.
HashStrategySequence ==
    status = "Ok" =>
        /\ Len(hash_algorithms) = hash_count
        /\ \A j \in 0..(hash_count - 1) :
              hash_algorithms[j + 1] =
                  CASE j % 3 = 0 -> "Default"
                    [] j % 3 = 1 -> "MD5"
                    [] j % 3 = 2 -> "SHA256"

\* C11 witness: a filter of more than three hash positions after an insert.
HashStrategySequenceWitness ==
    /\ status = "Ok"
    /\ hash_count > 3
    /\ ret.op = "insert"
    /\ inserts = 1
    /\ Cardinality(inserted) = 1

\* C12  Probes repeat beyond the palette: two positions equal modulo 3 give
\* a value the same bucket index, a value has at most min(hash_count, 3)
\* probe buckets and an insert occupies at most that many new ones, and a
\* filter of more than three hash positions has the bucket contents and the
\* check results of a filter of the same size with three, given the same
\* calls.
ProbesRepeat ==
    /\ [](status = "Ok" =>
            /\ \A v \in Values : \A j, jj \in Positions :
                  (j % 3 = jj % 3) =>
                      bloom_hash(v, hash_algorithms[j])
                          = bloom_hash(v, hash_algorithms[jj])
            /\ \A v \in Values :
                  /\ Cardinality(Probes(v)) <= 3
                  /\ Cardinality(Probes(v)) <= hash_count
            /\ hash_count > 3 =>
                  /\ Len(twin_algorithms) = 3
                  /\ buckets = twin
                  /\ \A v \in Values :
                        CheckResult(v).val = TwinCheckResult(v).val
                  /\ ret.op = "check" =>
                        ret.val = TwinCheckResult(ret.arg).val)
    /\ [][(status' = "Ok" /\ ret'.op = "insert") =>
            /\ Cardinality(Occupied' \ Occupied) <= 3
            /\ Cardinality(Occupied' \ Occupied) <= hash_count]_vars

\* C12 witness: on a filter of more than three hash positions, check was
\* called after two inserts for a value of three distinct probe buckets.
ProbesRepeatWitness ==
    /\ status = "Ok"
    /\ hash_count > 3
    /\ inserts >= 2
    /\ ret.op = "check"
    /\ Cardinality(Probes(ret.arg)) = 3

\* C13  Queries are pure reads: check, error_chance, capacity, len and
\* is_empty leave buckets, hash_algorithms and item_count as they were,
\* whatever they return, and a query repeated right after itself returns
\* what it returned before.
QueriesArePureReads ==
    [][ret'.op \in Queries =>
          /\ buckets' = buckets
          /\ hash_algorithms' = hash_algorithms
          /\ item_count' = item_count
          /\ (/\ ret.op = ret'.op
              /\ ret.op = "check" => ret.arg = ret'.arg) => ret' = ret]_vars

\* C13 witness: after an insert, check returned false before it reached the
\* last position.
QueriesArePureReadsWitness ==
    /\ status = "Ok"
    /\ inserts >= 1
    /\ ret.op = "check"
    /\ ret.val = FALSE
    /\ ret.probes < Len(hash_algorithms)

\* C14  clear is idempotent: a clear that follows a clear, and a clear of a
\* fresh filter, leave buckets, hash_algorithms and item_count as they were.
ClearIsIdempotent ==
    [][(/\ status = "Ok"
        /\ ret'.op = "clear"
        /\ ret.op = "clear" \/ fresh) =>
          /\ buckets' = buckets
          /\ hash_algorithms' = hash_algorithms
          /\ item_count' = item_count]_vars

\* C14 witness: clear was called right after a clear.
ClearIsIdempotentWitness ==
    /\ status = "Ok"
    /\ ret.op = "clear"
    /\ ret.again

\* The last 8 bytes of a digest: the u64 they spell, most significant first.
LastBytes(d) == SubSeq(d, Len(d) - U64Bytes + 1, Len(d))

\* C15  Digest fold wraps to the last 8 bytes: folding a 16-byte or 32-byte
\* digest from 0 with (acc << 8) | byte leaves a u64 at every step, equal
\* after 8 or more bytes to the last 8 bytes taken, so the result is the
\* big-endian integer of the final 8 bytes whatever the 8 or 24 bytes before
\* them are.
DigestFoldIsLastEightBytes ==
    /\ Len(fold.acc) = U64Bytes
    /\ \A i \in 1..U64Bytes : fold.acc[i] \in 0..(Byte - 1)
    /\ fold.pos >= U64Bytes =>
          fold.acc = SubSeq(fold.digest, fold.pos - U64Bytes + 1, fold.pos)
    /\ fold.pos = Len(fold.digest) =>
          /\ fold.acc = LastBytes(fold.digest)
          /\ DigestFold(fold.digest) = fold.acc
          /\ Len(fold.digest) - U64Bytes \in {8, 24}
          /\ \A d \in DigestSamples :
                LastBytes(d) = LastBytes(fold.digest) => DigestFold(d) = fold.acc

\* C15 witness: a 32-byte digest was folded to its end, its first byte is
\* not 0 and another digest has the same last 8 bytes.
DigestFoldIsLastEightBytesWitness ==
    /\ Len(fold.digest) = Sha256Len
    /\ fold.pos = Sha256Len
    /\ fold.digest[1] # 0
    /\ \E d \in DigestSamples : d # fold.digest /\ LastBytes(d) = LastBytes(fold.digest)

\* Every insert since new or the last clear has all its effects in the
\* filter, and nothing else has: the probe buckets of the inserted values
\* are the occupied ones and the counter counts the inserts.
NothingTorn == Occupied = InsertedProbes /\ item_count = inserts

\* C16  No torn insert is observable: no shared borrow is held while insert
\* or clear holds the exclusive one, and every state in which a query
\* returns has no insert or clear under way and has, of every insert, all
\* the probe bits and the counter increment or nothing.
NoTornInsertObserved ==
    /\ [](status = "Ok" =>
            /\ borrow.readers > 0 => borrow.writer.op = "none"
            /\ borrow.writer.op = "none" => NothingTorn)
    /\ [][(status = "Ok" /\ ret' # ret /\ ret'.op \in Queries) =>
            /\ borrow.writer.op = "none"
            /\ NothingTorn
            /\ NothingTorn']_vars

\* C16 witness: with two shared borrows held, check returned after two
\* inserts, one of a value of two or more probe buckets.
NoTornInsertObservedWitness ==
    /\ status = "Ok"
    /\ borrow.readers = MaxReaders
    /\ inserts >= 2
    /\ ret.op = "check"
    /\ \E v \in inserted : Cardinality(Probes(v)) >= 2

====
